---- MODULE Spec2Model ----
(***************************************************************************)
(* Model of asgi_admin's list view (ModelViewList in asgi_admin/views.py): *)
(* the pagination codec, the sorting codec and the links they generate.    *)
(*                                                                         *)
(* Python strings are sequences of one-character strings, so that         *)
(* str.split, str.startswith, int(), str() and URL quoting are computed    *)
(* character by character.  None is the Python None.                       *)
(***************************************************************************)
EXTENDS Integers, Sequences, FiniteSets, TLC

\* Python None: a sequence no Python string equals (strings hold one-character elements)
None == <<"None">>

(***************************************************************************)
(* Bounds of the model.                                                    *)
(***************************************************************************)
\* largest number of comma-separated tokens in a 'sorting' parameter
MaxTokens == 3
\* largest 'offset' a client types in by hand
MaxOffset == 10
\* largest 'limit' a client types in by hand
MaxLimit == 3
\* largest number of items the repository reports
MaxTotal == 11
\* number of items the repository reports while every sorting is tried
SortingTotal == 5

(***************************************************************************)
(* repository.py: SortingOrder                                             *)
(***************************************************************************)
ASC == "ASC"
DESC == "DESC"

(***************************************************************************)
(* Python str and list helpers                                             *)
(***************************************************************************)
\* str.split(sep) for a one-character separator: always at least one part
RECURSIVE split(_, _)
split(s, sep) ==
    IF \A i \in 1..Len(s) : s[i] # sep
    THEN <<s>>
    ELSE LET i == CHOOSE k \in 1..Len(s) :
                      s[k] = sep /\ \A j \in 1..(k - 1) : s[j] # sep
         IN  <<SubSeq(s, 1, i - 1)>> \o split(SubSeq(s, i + 1, Len(s)), sep)

\* sep.join(parts)
RECURSIVE join(_, _)
join(sep, parts) ==
    IF parts = <<>> THEN <<>>
    ELSE IF Len(parts) = 1 THEN parts[1]
    ELSE parts[1] \o sep \o join(sep, Tail(parts))

\* str.startswith(c) for a one-character prefix
startswith(s, c) == Len(s) > 0 /\ s[1] = c

\* the decimal digits
Digits == <<"0", "1", "2", "3", "4", "5", "6", "7", "8", "9">>

IsDigit(c) == \E d \in 1..10 : Digits[d] = c

DigitValue(c) == (CHOOSE d \in 1..10 : Digits[d] = c) - 1

\* str(n) of a natural number
RECURSIVE StrNat(_)
StrNat(n) ==
    IF n < 10 THEN <<Digits[n + 1]>>
    ELSE StrNat(n \div 10) \o <<Digits[(n % 10) + 1]>>

\* str(n) of an int
str(n) == IF n < 0 THEN <<"-">> \o StrNat(-n) ELSE StrNat(n)

\* value of a non-empty string of digits
RECURSIVE NatOf(_)
NatOf(s) ==
    IF Len(s) = 1 THEN DigitValue(s[1])
    ELSE 10 * NatOf(SubSeq(s, 1, Len(s) - 1)) + DigitValue(s[Len(s)])

\* the strings int() accepts: an optional sign followed by digits
IsIntLiteral(s) ==
    LET body == IF startswith(s, "-") THEN Tail(s) ELSE s
    IN  Len(body) > 0 /\ \A i \in 1..Len(body) : IsDigit(body[i])

\* int(s) of a string int() accepts; int(s) raises ValueError on the others
int(s) == IF startswith(s, "-") THEN -NatOf(Tail(s)) ELSE NatOf(s)

(***************************************************************************)
(* The query string.  request.query_params (Starlette's QueryParams, an    *)
(* immutable multi-dict) is the sequence of <<name, value>> pairs of the   *)
(* request, repeated names included; a Python dict is such a sequence with *)
(* each name once, in insertion order.  Names are plain identifiers that   *)
(* URL quoting leaves alone; values are quoted character by character.     *)
(***************************************************************************)
\* request.query_params.get(key, default): the last value given for key
get(query_params, key, default) ==
    IF \E i \in 1..Len(query_params) : query_params[i][1] = key
    THEN LET i == CHOOSE k \in 1..Len(query_params) :
                      /\ query_params[k][1] = key
                      /\ \A j \in (k + 1)..Len(query_params) :
                             query_params[j][1] # key
         IN  query_params[i][2]
    ELSE default

\* d[key] = value on a Python dict: overwrite in place, or insert at the end
dict_set(d, key, value) ==
    IF \E i \in 1..Len(d) : d[i][1] = key
    THEN [i \in 1..Len(d) |-> IF d[i][1] = key THEN <<key, value>> ELSE d[i]]
    ELSE Append(d, <<key, value>>)

\* {**request.query_params}: each name once, at the place of its first
\* occurrence, with the value of its last occurrence
RECURSIVE dict_of(_)
dict_of(query_params) ==
    IF query_params = <<>> THEN <<>>
    ELSE LET n == Len(query_params)
         IN  dict_set(dict_of(SubSeq(query_params, 1, n - 1)),
                      query_params[n][1], query_params[n][2])

\* urllib.parse.quote_plus of one character
quote_char(c) ==
    CASE c = " " -> <<"+">>
      [] c = "," -> <<"%", "2", "C">>
      [] c = "+" -> <<"%", "2", "B">>
      [] c = "%" -> <<"%", "2", "5">>
      [] OTHER   -> <<c>>

\* urllib.parse.quote_plus
RECURSIVE quote_plus(_)
quote_plus(s) ==
    IF s = <<>> THEN <<>> ELSE quote_char(s[1]) \o quote_plus(Tail(s))

\* the character a %XX escape stands for
unquote_code(hi, lo) ==
    CASE hi = "2" /\ lo = "C" -> ","
      [] hi = "2" /\ lo = "B" -> "+"
      [] hi = "2" /\ lo = "5" -> "%"
      [] OTHER                -> "?"

\* urllib.parse.unquote_plus, as parse_qsl applies it to each value
RECURSIVE unquote_plus(_)
unquote_plus(s) ==
    IF s = <<>> THEN <<>>
    ELSE IF s[1] = "+" THEN <<" ">> \o unquote_plus(Tail(s))
    ELSE IF s[1] = "%" /\ Len(s) >= 3
         THEN <<unquote_code(s[2], s[3])>> \o unquote_plus(SubSeq(s, 4, Len(s)))
    ELSE <<s[1]>> \o unquote_plus(Tail(s))

\* urllib.parse.urlencode(d) of a dict of strings
urlencode(d) == [i \in 1..Len(d) |-> <<d[i][1], quote_plus(d[i][2])>>]

\* QueryParams(query string): urllib.parse.parse_qsl(keep_blank_values=True)
parse_qsl(query) == [i \in 1..Len(query) |-> <<query[i][1], unquote_plus(query[i][2])>>]

\* request.url_for(self.route_name): the list view's own URL
url_for == "/admin/my-model/"

\* f"{request.url_for(self.route_name)}?{query_params}"
Link(query) == [url |-> url_for, query |-> query]

\* a route that is None
NoRoute == [url |-> "None", query |-> <<>>]

\* the outcome of a call that raised KeyError instead of returning a route
KeyError == [url |-> "KeyError", query |-> <<>>]

(***************************************************************************)
(* The list view's configuration: ModelViewList.fields, a dict from field  *)
(* key to ListField.  Keys a, b, c are sortable, n is declared with        *)
(* sorting=None; every other key (u, the empty key, ...) is undeclared.    *)
(***************************************************************************)
fields ==
    [k \in {<<"a">>, <<"b">>, <<"c">>, <<"n">>} |->
        [label   |-> k,
         sorting |-> IF k = <<"n">> THEN None ELSE <<"c", "o", "l">> \o k]]

\* ListField.sortable
sortable(field) == field.sorting # None

\* ModelViewList.default_limit
default_limit == 10

\* field_key in sorted_fields
has_key(d, key) == \E i \in 1..Len(d) : d[i][1] = key

(***************************************************************************)
(* ModelViewList._get_pagination_input                                     *)
(***************************************************************************)
_get_pagination_input(request) ==
    LET offset == get(request.query_params, "offset", None)
        limit  == get(request.query_params, "limit", None)
    IN  IF /\ offset # None => IsIntLiteral(offset)
           /\ limit # None => IsIntLiteral(limit)
        THEN [raised |-> FALSE,
              offset |-> IF offset = None THEN 0 ELSE int(offset),
              limit  |-> IF limit = None THEN default_limit ELSE int(limit)]
        ELSE [raised |-> TRUE, offset |-> 0, limit |-> 0]

\* _get_pagination_output with the next link also offered when the window
\* ends exactly at the total
_get_pagination_output_inclusive(request, offset, limit, total) ==
    LET next_offset == offset + limit
        next_query_params ==
            urlencode(dict_set(dict_of(request.query_params),
                               "offset", str(next_offset)))
        next_route ==
            IF next_offset <= total THEN Link(next_query_params) ELSE NoRoute
        previous_offset == offset - limit
        previous_query_params ==
            urlencode(dict_set(dict_of(request.query_params),
                               "offset", str(previous_offset)))
        previous_route ==
            IF previous_offset >= 0 THEN Link(previous_query_params) ELSE NoRoute
        min == IF offset + limit < total THEN offset + limit ELSE total
    IN  [offset         |-> offset,
         limit          |-> limit,
         total          |-> total,
         range          |-> <<offset, min>>,
         next_route     |-> next_route,
         previous_route |-> previous_route]

\* _get_pagination_output with the previous link offered whenever the offset
\* itself is not negative
_get_pagination_output_previous_of_offset(request, offset, limit, total) ==
    LET next_offset == offset + limit
        next_query_params ==
            urlencode(dict_set(dict_of(request.query_params),
                               "offset", str(next_offset)))
        next_route ==
            IF next_offset < total THEN Link(next_query_params) ELSE NoRoute
        previous_offset == offset - limit
        previous_query_params ==
            urlencode(dict_set(dict_of(request.query_params),
                               "offset", str(previous_offset)))
        previous_route ==
            IF offset >= 0 THEN Link(previous_query_params) ELSE NoRoute
        min == IF offset + limit < total THEN offset + limit ELSE total
    IN  [offset         |-> offset,
         limit          |-> limit,
         total          |-> total,
         range          |-> <<offset, min>>,
         next_route     |-> next_route,
         previous_route |-> previous_route]

\* _get_pagination_output with a next link that carries the offset alone
_get_pagination_output_bare_next(request, offset, limit, total) ==
    LET next_offset == offset + limit
        next_query_params ==
            urlencode(<< <<"offset", str(next_offset)>> >>)
        next_route ==
            IF next_offset < total THEN Link(next_query_params) ELSE NoRoute
        previous_offset == offset - limit
        previous_query_params ==
            urlencode(dict_set(dict_of(request.query_params),
                               "offset", str(previous_offset)))
        previous_route ==
            IF previous_offset >= 0 THEN Link(previous_query_params) ELSE NoRoute
        min == IF offset + limit < total THEN offset + limit ELSE total
    IN  [offset         |-> offset,
         limit          |-> limit,
         total          |-> total,
         range          |-> <<offset, min>>,
         next_route     |-> next_route,
         previous_route |-> previous_route]

\* _get_pagination_output with a range that is not clipped to the total
_get_pagination_output_unclipped(request, offset, limit, total) ==
    LET next_offset == offset + limit
        next_query_params ==
            urlencode(dict_set(dict_of(request.query_params),
                               "offset", str(next_offset)))
        next_route ==
            IF next_offset < total THEN Link(next_query_params) ELSE NoRoute
        previous_offset == offset - limit
        previous_query_params ==
            urlencode(dict_set(dict_of(request.query_params),
                               "offset", str(previous_offset)))
        previous_route ==
            IF previous_offset >= 0 THEN Link(previous_query_params) ELSE NoRoute
        min == IF offset + limit < total THEN offset + limit ELSE total
    IN  [offset         |-> offset,
         limit          |-> limit,
         total          |-> total,
         range          |-> <<offset, offset + limit>>,
         next_route     |-> next_route,
         previous_route |-> previous_route]

\* the pagination output whose next link starts one item too far
_get_pagination_output_skipping(request, offset, limit, total) ==
    LET next_offset == offset + limit
        next_query_params ==
            urlencode(dict_set(dict_of(request.query_params),
                               "offset", str(next_offset + 1)))
        next_route ==
            IF next_offset < total THEN Link(next_query_params) ELSE NoRoute
        previous_offset == offset - limit
        previous_query_params ==
            urlencode(dict_set(dict_of(request.query_params),
                               "offset", str(previous_offset)))
        previous_route ==
            IF previous_offset >= 0 THEN Link(previous_query_params) ELSE NoRoute
        min == IF offset + limit < total THEN offset + limit ELSE total
    IN  [offset         |-> offset,
         limit          |-> limit,
         total          |-> total,
         range          |-> <<offset, min>>,
         next_route     |-> next_route,
         previous_route |-> previous_route]

(***************************************************************************)
(* ModelViewList._get_pagination_output                                    *)
(***************************************************************************)
_get_pagination_output(request, offset, limit, total) ==
    LET next_offset == offset + limit
        next_query_params ==
            urlencode(dict_set(dict_of(request.query_params),
                               "offset", str(next_offset)))
        next_route ==
            IF next_offset < total THEN Link(next_query_params) ELSE NoRoute
        previous_offset == offset - limit
        previous_query_params ==
            urlencode(dict_set(dict_of(request.query_params),
                               "offset", str(previous_offset)))
        previous_route ==
            IF previous_offset >= 0 THEN Link(previous_query_params) ELSE NoRoute
        min == IF offset + limit < total THEN offset + limit ELSE total
    IN  [offset         |-> offset,
         limit          |-> limit,
         total          |-> total,
         range          |-> <<offset, min>>,
         next_route     |-> next_route,
         previous_route |-> previous_route]

(***************************************************************************)
(* ModelViewList._get_sorting_input                                        *)
(***************************************************************************)
\* the decode loop without the stripping of the leading '-'
RECURSIVE _get_sorting_input_loop_keeps_dash(_, _)
_get_sorting_input_loop_keeps_dash(tokens, sorting) ==
    IF tokens = <<>> THEN sorting
    ELSE LET token     == Head(tokens)
             order     == IF startswith(token, "-") THEN DESC ELSE ASC
             field_key == token
         IN  _get_sorting_input_loop_keeps_dash(
                 Tail(tokens),
                 IF field_key \in DOMAIN fields /\ sortable(fields[field_key])
                 THEN dict_set(sorting, field_key, order)
                 ELSE sorting)

\* the decode loop without the test of ListField.sortable
RECURSIVE _get_sorting_input_loop_any_declared(_, _)
_get_sorting_input_loop_any_declared(tokens, sorting) ==
    IF tokens = <<>> THEN sorting
    ELSE LET token     == Head(tokens)
             order     == IF startswith(token, "-") THEN DESC ELSE ASC
             field_key == IF startswith(token, "-") THEN Tail(token) ELSE token
         IN  _get_sorting_input_loop_any_declared(
                 Tail(tokens),
                 IF field_key \in DOMAIN fields
                 THEN dict_set(sorting, field_key, order)
                 ELSE sorting)

\* the decode loop keeping the direction of the first token of a field
RECURSIVE _get_sorting_input_loop_first_wins(_, _)
_get_sorting_input_loop_first_wins(tokens, sorting) ==
    IF tokens = <<>> THEN sorting
    ELSE LET token     == Head(tokens)
             order     == IF startswith(token, "-") THEN DESC ELSE ASC
             field_key == IF startswith(token, "-") THEN Tail(token) ELSE token
         IN  _get_sorting_input_loop_first_wins(
                 Tail(tokens),
                 IF /\ field_key \in DOMAIN fields /\ sortable(fields[field_key])
                    /\ ~has_key(sorting, field_key)
                 THEN dict_set(sorting, field_key, order)
                 ELSE sorting)

\* the loop over sorting_param.split(","), on the tokens not yet visited
RECURSIVE _get_sorting_input_loop(_, _)
_get_sorting_input_loop(tokens, sorting) ==
    IF tokens = <<>> THEN sorting
    ELSE LET token     == Head(tokens)
             order     == IF startswith(token, "-") THEN DESC ELSE ASC
             field_key == IF startswith(token, "-") THEN Tail(token) ELSE token
         IN  _get_sorting_input_loop(
                 Tail(tokens),
                 IF field_key \in DOMAIN fields /\ sortable(fields[field_key])
                 THEN dict_set(sorting, field_key, order)
                 ELSE sorting)

_get_sorting_input(request) ==
    LET sorting_param == get(request.query_params, "sorting", None)
    IN  IF sorting_param = None THEN <<>>
        ELSE _get_sorting_input_loop(split(sorting_param, ","), <<>>)

(***************************************************************************)
(* ModelViewList._get_sorting_output: the closure get_sorting_route        *)
(***************************************************************************)
\* sorted_fields[field_key]
order_of(sorted_fields, field_key) ==
    sorted_fields[CHOOSE i \in 1..Len(sorted_fields) :
                      sorted_fields[i][1] = field_key][2]

\* get_sorting_route with the window sent back to the first page
get_sorting_route_resets_offset(request, sorted_fields, field_key) ==
    LET known == has_key(sorted_fields, field_key)
        sorting_param ==
            IF known
            THEN IF order_of(sorted_fields, field_key) = ASC
                 THEN <<<<"-">> \o field_key>>
                 ELSE <<>>
            ELSE IF sortable(fields[field_key])
                 THEN <<field_key>>
                 ELSE <<>>
        query_params ==
            urlencode(dict_set(dict_set(dict_of(request.query_params),
                                        "sorting", join(<<",">>, sorting_param)),
                               "offset", str(0)))
    IN  IF ~known /\ field_key \notin DOMAIN fields
        THEN KeyError
        ELSE Link(query_params)

get_sorting_route(request, sorted_fields, field_key) ==
    LET known == has_key(sorted_fields, field_key)
        sorting_param ==
            IF known
            THEN IF order_of(sorted_fields, field_key) = ASC
                 THEN <<<<"-">> \o field_key>>
                 ELSE <<>>
            ELSE IF sortable(fields[field_key])
                 THEN <<field_key>>
                 ELSE <<>>
        query_params ==
            urlencode(dict_set(dict_of(request.query_params),
                               "sorting", join(<<",">>, sorting_param)))
    IN  IF ~known /\ field_key \notin DOMAIN fields
        THEN KeyError
        ELSE Link(query_params)

\* the keys a template may hand to get_sorting_route: the declared ones and
\* an undeclared one
RouteKeys == DOMAIN fields \cup {<<"u">>}

_get_sorting_output(request, sorted_fields) ==
    [fields            |-> sorted_fields,
     get_sorting_route |->
         [field_key \in RouteKeys |->
             get_sorting_route(request, sorted_fields, field_key)]]

(***************************************************************************)
(* ModelViewList._get_query_input                                          *)
(***************************************************************************)
\* str.strip(), on strings whose only whitespace is the space
RECURSIVE strip(_)
strip(s) ==
    IF s = <<>> THEN s
    ELSE IF s[1] = " " THEN strip(Tail(s))
    ELSE IF s[Len(s)] = " " THEN strip(SubSeq(s, 1, Len(s) - 1))
    ELSE s

_get_query_input(request) ==
    LET query == get(request.query_params, "query", None)
    IN  IF query # None THEN strip(query) ELSE None

(***************************************************************************)
(* ModelViewList.model_endpoint, as ModelView.endpoint calls it.  The      *)
(* repository's list answers with the number of items it holds.  A         *)
(* ValueError raised by int() leaves the view uncaught and the application *)
(* answers 500 without rendering.                                          *)
(***************************************************************************)
model_endpoint(request, total) ==
    LET pagination_input == _get_pagination_input(request)
        sorted_fields    == _get_sorting_input(request)
        query            == _get_query_input(request)
    IN  IF pagination_input.raised
        THEN [status |-> 500, context |-> <<>>]
        ELSE [status  |-> 200,
              context |->
                  [pagination |->
                       _get_pagination_output(request, pagination_input.offset,
                                              pagination_input.limit, total),
                   sorting    |-> _get_sorting_output(request, sorted_fields),
                   query      |-> query]]

(***************************************************************************)
(* The repository of the test application (tests/app/__init__.py):        *)
(* MyModelRepository over the dict _items, here the sequence of its values *)
(* in insertion order.  An item is a record of its id and its label.       *)
(***************************************************************************)
\* str.lower of one character
lower_char(c) ==
    CASE c = "A" -> "a"
      [] c = "B" -> "b"
      [] OTHER   -> c

\* str.lower
lower(s) == [i \in 1..Len(s) |-> lower_char(s[i])]

\* needle in haystack, for strings
contains(haystack, needle) ==
    \E i \in 0..(Len(haystack) - Len(needle)) :
        SubSeq(haystack, i + 1, i + Len(needle)) = needle

\* seq[start:stop]
slice(seq, start, stop) ==
    LET n     == Len(seq)
        clip(i) == IF i < 0 THEN (IF n + i < 0 THEN 0 ELSE n + i)
                   ELSE (IF i > n THEN n ELSE i)
    IN  SubSeq(seq, clip(start) + 1, clip(stop))

\* MyModelRepository.list._query_function
_query_function(item, query, query_fields) ==
    \/ query = None
    \/ query_fields = <<>>
    \/ \E i \in 1..Len(query_fields) :
           contains(lower(item[query_fields[i]]), lower(query))

\* the characters of the model's strings, in code point order
Alphabet == <<" ", "%", "1", "2", "3", "A", "B", "_", "a", "b", "c", "x", "y", "z">>

\* ord(c)
ord(c) == CHOOSE i \in 1..Len(Alphabet) : Alphabet[i] = c

\* s < t, for strings
RECURSIVE str_lt(_, _)
str_lt(s, t) ==
    IF t = <<>> THEN FALSE
    ELSE IF s = <<>> THEN TRUE
    ELSE IF s[1] = t[1] THEN str_lt(Tail(s), Tail(t))
    ELSE ord(s[1]) < ord(t[1])

\* attrgetter(field)(item) for the columns the list view sorts by: cola is
\* the id, colb the label and any other the creation time
attrgetter(field, item) ==
    IF field = <<"c", "o", "l", "a">> THEN item.id
    ELSE IF field = <<"c", "o", "l", "b">> THEN item.label
    ELSE item.created_at

\* the place of an item in a list sorted by the field: behind every item
\* that does not come after it
insort(sorted, item, field, reverse) ==
    LET key(i)   == attrgetter(field, i)
        stays(i) == IF reverse THEN ~str_lt(key(sorted[i]), key(item))
                    ELSE ~str_lt(key(item), key(sorted[i]))
        front    == {i \in 0..Len(sorted) : \A j \in 1..i : stays(j)}
        place    == CHOOSE i \in front : \A j \in front : j <= i
    IN  SubSeq(sorted, 1, place) \o <<item>> \o SubSeq(sorted, place + 1, Len(sorted))

\* items.sort(key=attrgetter(field), reverse=...): a stable sort, also in
\* reverse
RECURSIVE sort(_, _, _, _)
sort(items, field, reverse, sorted) ==
    IF items = <<>> THEN sorted
    ELSE sort(Tail(items), field, reverse, insort(sorted, Head(items), field, reverse))

\* for field, way in reversed(sorting): items.sort(...)
RECURSIVE sort_all(_, _)
sort_all(items, sorting) ==
    IF sorting = <<>> THEN items
    ELSE LET last == sorting[Len(sorting)]
         IN  sort_all(sort(items, last[1], last[2] = DESC, <<>>),
                      SubSeq(sorting, 1, Len(sorting) - 1))

\* MyModelRepository.list: filter, sort, window
repository_list(items, sorting, offset, limit, query, query_fields) ==
    LET matching == SelectSeq(items,
                        LAMBDA item : _query_function(item, query, query_fields))
        sorted   == sort_all(matching, sorting)
    IN  [total |-> Len(sorted),
         items |-> slice(sorted, offset, offset + limit)]

\* the outcome of get_by_pk for a key the repository does not hold
NoItem == [id |-> None, label |-> None, created_at |-> None]

\* MyModelRepository.get_by_pk
repository_get_by_pk(items, pk) ==
    IF \E i \in 1..Len(items) : items[i].id = pk
    THEN items[CHOOSE i \in 1..Len(items) : items[i].id = pk]
    ELSE NoItem

\* MyModelRepository.update: the item with the data, and the repository
\* holding it under the item's id
repository_update(items, item, data) ==
    LET updated == [item EXCEPT !.label = data.label]
    IN  [item  |-> updated,
         items |-> IF \E i \in 1..Len(items) : items[i].id = item.id
                   THEN [i \in 1..Len(items) |->
                            IF items[i].id = item.id THEN updated ELSE items[i]]
                   ELSE Append(items, updated)]

\* the items of the application at start
InitialItems ==
    <<[id |-> <<"x">>, label |-> <<"A", "b", "c">>, created_at |-> <<"1">>],
      [id |-> <<"y">>, label |-> <<"b", "x">>, created_at |-> <<"2">>]>>

\* ModelViewList.query_fields of the test application
query_fields == <<"id", "label">>

(***************************************************************************)
(* ModelViewEdit of the test application: one field, label, with the       *)
(* validators InputRequired and Length(min=3), and two async validators.   *)
(***************************************************************************)
\* the form holds no value for the label
NoValue == None

\* form.validate() with InputRequired alone
validate_required_only(form) ==
    /\ form.raw_data # NoValue
    /\ Len(form.raw_data) > 0

\* form.validate(): InputRequired, then Length(min=3)
validate(form) ==
    /\ form.raw_data # NoValue
    /\ Len(form.raw_data) > 0
    /\ Len(form.label) >= 3

\* the loop of ModelViewEdit._async_validate from the i-th validator on,
\* over the results the validators return: the answer so far and the
\* validators awaited so far, in order
RECURSIVE _async_validate_loop(_, _, _, _)
_async_validate_loop(results, i, valid, awaited) ==
    IF i > Len(results) THEN [valid |-> valid, awaited |-> awaited]
    ELSE _async_validate_loop(results, i + 1,
                              IF ~results[i] THEN FALSE ELSE valid,
                              Append(awaited, i))

\* an _async_validate that returns at the first validator answering false
_async_validate_short_circuit(results) ==
    LET failed == {i \in 1..Len(results) : ~results[i]}
        last   == IF failed = {} THEN Len(results)
                  ELSE CHOOSE i \in failed : \A j \in failed : i <= j
    IN  [valid |-> failed = {}, awaited |-> [i \in 1..last |-> i]]

_async_validate(results) == _async_validate_loop(results, 1, TRUE, <<>>)

(***************************************************************************)
(* The requests a client types in by hand.                                 *)
(***************************************************************************)
\* the tokens of a hand-written 'sorting' parameter: sortable keys in both
\* directions, the non-sortable key, an empty token, a doubled dash
Tokens ==
    {<<"a">>, <<"-", "a">>, <<"b">>, <<"-", "b">>, <<"c">>, <<"-", "c">>,
     <<"n">>, <<"-", "n">>, <<>>, <<"-", "-", "a">>}

\* all sequences over S of length at most n
RECURSIVE SeqsUpTo(_, _)
SeqsUpTo(S, n) ==
    IF n = 0 THEN {<<>>}
    ELSE LET shorter == SeqsUpTo(S, n - 1)
         IN  shorter \cup {Append(q, x) : q \in shorter, x \in S}

\* the values of a hand-written 'sorting' parameter
SortingParams == {join(<<",">>, ts) : ts \in SeqsUpTo(Tokens, MaxTokens)}

\* the 'sorting' part of a query string: absent, or any hand-written value
SortingParts == {<<>>} \cup {<< <<"sorting", v>> >> : v \in SortingParams}

\* a few 'sorting' parts: none, and one with the name repeated
FewSortingParts ==
    {<<>>,
     << <<"sorting", <<"c">>>>, <<"sorting", <<"-", "b", ",", "a">>>> >>}

\* the values of a hand-written 'offset' or 'limit': naturals up to max, a
\* negative number and a string that is no integer
IntParams(max) == {str(n) : n \in -1..max} \cup {<<"a">>}

\* the 'offset' and 'limit' part of a query string
PageParts ==
    {o \o l :
        o \in {<<>>} \cup {<< <<"offset", v>> >> : v \in IntParams(MaxOffset)},
        l \in {<<>>} \cup {<< <<"limit", v>> >> : v \in IntParams(MaxLimit)}}

\* a few 'offset' and 'limit' parts
FewPageParts ==
    {<<>>, << <<"limit", <<"2">>>>, <<"offset", <<"0", "4">>>> >>}

\* the other parameters: none, or a text query and an extra name given twice
ExtraParts ==
    {<<>>,
     << <<"x", <<"1">>>>, <<"query", <<" ", "a", ",", "b">>>>, <<"x", <<"2">>>> >>}

\* query strings with every hand-written sorting and a few windows
SortingRequests ==
    {[query_params |-> p \o s \o e] :
        p \in FewPageParts, s \in SortingParts, e \in ExtraParts}

\* query strings with every hand-written window and a few sortings
PageRequests ==
    {[query_params |-> e \o s \o p] :
        p \in PageParts, s \in FewSortingParts, e \in ExtraParts}

(***************************************************************************)
(* State: the request the client has sent last, the number of items in the *)
(* repository, and the response the list view gave to the request.         *)
(***************************************************************************)
\* wtforms: form_class(form_data, obj=item); a field not submitted keeps
\* the item's value and has no raw data
form_class(form_data, obj) ==
    [label    |-> IF form_data.label = NoValue THEN obj.label ELSE form_data.label,
     raw_data |-> form_data.label]

\* form.data
form_data_of(form) == [label |-> form.label]

\* the arguments of repository.list with the field keys themselves in the
\* place of their sorting attributes
list_arguments_field_keys(request) ==
    LET sorting    == _get_sorting_input(request)
        pagination == _get_pagination_input(request)
    IN  [sorting      |-> sorting,
         offset       |-> pagination.offset,
         limit        |-> pagination.limit,
         query        |-> _get_query_input(request),
         query_fields |-> query_fields]

\* the arguments of repository.list for a request whose parameters decode
list_arguments(request) ==
    LET sorting    == _get_sorting_input(request)
        pagination == _get_pagination_input(request)
    IN  [sorting      |-> [i \in 1..Len(sorting) |->
                              <<fields[sorting[i][1]].sorting, sorting[i][2]>>],
         offset       |-> pagination.offset,
         limit        |-> pagination.limit,
         query        |-> _get_query_input(request),
         query_fields |-> query_fields]

\* get_by_pk_or_404 handing on whatever repository.get_by_pk returned
get_by_pk_or_404_never_raises(item) == [raised |-> FALSE, item |-> item]

\* ModelViewBase.get_by_pk_or_404 on what repository.get_by_pk returned
get_by_pk_or_404(item) == [raised |-> item = NoItem, item |-> item]

\* leaving the block with a release on return only
__aexit___on_return(events, raised) ==
    IF raised THEN events ELSE Append(events, "release")

\* leaving 'async with self.get_repository(request)', by return or by an
\* exception passing through
__aexit__(events, raised) == Append(events, "release")

(***************************************************************************)
(* The SQLAlchemy repository (integrations/sqlalchemy.py): the statement   *)
(* RepositoryBase.list builds, as the database evaluates it.  The order of *)
(* rows that the ORDER BY leaves tied is the database's choice, so the     *)
(* result is given by what does not depend on it: the total and the number *)
(* of rows of the page.                                                    *)
(***************************************************************************)
\* text LIKE pattern: % stands for any run of characters, _ for any one
RECURSIVE like(_, _)
like(text, pattern) ==
    IF pattern = <<>> THEN text = <<>>
    ELSE IF pattern[1] = "%"
    THEN like(text, Tail(pattern)) \/ (text # <<>> /\ like(Tail(text), pattern))
    ELSE IF pattern[1] = "_"
    THEN text # <<>> /\ like(Tail(text), Tail(pattern))
    ELSE text # <<>> /\ text[1] = pattern[1] /\ like(Tail(text), Tail(pattern))

\* cast(column, String).ilike(f"%{query}%")
ilike(text, query) == like(lower(text), <<"%">> \o lower(query) \o <<"%">>)

\* the rows of the statement with its WHERE clause
where(items, query, query_fields_) ==
    IF query # None /\ query_fields_ # None
    THEN SelectSeq(items,
             LAMBDA item : \E i \in 1..Len(query_fields_) :
                               ilike(item[query_fields_[i]], query))
    ELSE items

\* the number of rows LIMIT limit OFFSET offset leaves of n rows
window_len(n, offset, limit) ==
    IF n - offset <= 0 THEN 0
    ELSE IF n - offset < limit THEN n - offset ELSE limit

\* RepositoryBase.list: count is the window function count(*) over all the
\* rows of the statement, read from the rows of the page; with no row in
\* the page it stays 0
sqlalchemy_list(items, sorting, offset, limit, query, query_fields_) ==
    LET rows     == where(items, query, query_fields_)
        page_len == window_len(Len(rows), offset, limit)
    IN  [total    |-> IF page_len = 0 THEN 0 ELSE Len(rows),
         page_len |-> page_len]

(***************************************************************************)
(* _routing.py: the routes of the application are a nested list; a Route   *)
(* has an endpoint and no routes, a Mount has routes and no endpoint.      *)
(***************************************************************************)
\* getattr(route, "endpoint", None) of a Mount
NoEndpoint == "None"

\* the route that is not there: CurrentRouteNotFound was raised
NoRouteView == [endpoint |-> NoEndpoint, routes |-> <<>>]

\* _get_current_route
RECURSIVE _get_current_route(_, _)
_get_current_route(routes, endpoint) ==
    IF routes = <<>> THEN [raised |-> TRUE, route |-> NoRouteView]
    ELSE LET route == Head(routes)
         IN  IF route.endpoint = endpoint
             THEN [raised |-> FALSE, route |-> route]
             ELSE IF route.routes # <<>>
             THEN _get_current_route(route.routes, endpoint)
             ELSE _get_current_route(Tail(routes), endpoint)

(***************************************************************************)
(* The view tree: ViewBase objects, each with its name, its _parent, its   *)
(* children list and, once read, the route_name that functools'            *)
(* cached_property keeps in the object.  A tree is a function from the     *)
(* objects to their records; a route name is the sequence of the pieces    *)
(* its f-string concatenates.                                              *)
(***************************************************************************)
\* the separator of asgi_admin._constants
ROUTE_NAME_SEPARATOR == ":"

\* a parent that is None
NoParent == "None"

\* route_name not read yet: nothing cached in the object
NoCache == <<>>

\* an object not constructed yet
NoView ==
    [constructed |-> FALSE, name |-> "", _parent |-> NoParent,
     children |-> <<>>, route_name |-> NoCache, fields |-> <<>>]

\* the parent setter
set_parent(vs, n, parent) == [vs EXCEPT ![n]._parent = parent]

\* ViewBase.add_child
add_child(vs, n, child) ==
    LET parented == set_parent(vs, child, n)
    IN  [parented EXCEPT ![n].children = Append(@, child)]

\* for child in children or []: self.add_child(child)
RECURSIVE add_children(_, _, _)
add_children(vs, n, children) ==
    IF children = <<>> THEN vs
    ELSE add_children(add_child(vs, n, Head(children)), n, Tail(children))

\* ViewBase.__init__
__init__(vs, n, name, parent, children) ==
    add_children([vs EXCEPT ![n].constructed = TRUE,
                            ![n].name = name,
                            ![n]._parent = parent,
                            ![n].children = <<>>],
                 n, children)

\* ModelViewGroup.__init__: ViewBase.__init__ runs once through ViewGroup
\* and once more through ModelViewBase
ModelViewGroup__init__(vs, n, name, parent, children) ==
    __init__(__init__(vs, n, name, parent, children), n, name, parent, children)

\* the name derived from the parent chain as it is, with no caching: the
\* definition a read of route_name is compared with
RECURSIVE route_name_uncached(_, _, _)
route_name_uncached(vs, n, visiting) ==
    IF n \in visiting
    THEN [views |-> vs, raised |-> TRUE, value |-> NoCache]
    ELSE IF vs[n]._parent = NoParent
    THEN [views |-> vs, raised |-> FALSE, value |-> <<vs[n].name>>]
    ELSE LET parent == route_name_uncached(vs, vs[n]._parent, visiting \cup {n})
         IN  IF parent.raised
             THEN [views |-> vs, raised |-> TRUE, value |-> NoCache]
             ELSE [views |-> vs, raised |-> FALSE,
                   value |-> parent.value \o <<ROUTE_NAME_SEPARATOR, vs[n].name>>]

\* ViewBase.route_name, a cached_property: the cached value if the object
\* has one, else the name computed from the parent's route_name and cached.
\* A parent chain that comes back to an object being read ends the read
\* with RecursionError and nothing cached.
RECURSIVE route_name(_, _, _)
route_name(vs, n, visiting) ==
    IF vs[n].route_name # NoCache
    THEN [views |-> vs, raised |-> FALSE, value |-> vs[n].route_name]
    ELSE IF n \in visiting
    THEN [views |-> vs, raised |-> TRUE, value |-> NoCache]
    ELSE IF vs[n]._parent = NoParent
    THEN [views  |-> [vs EXCEPT ![n].route_name = <<vs[n].name>>],
          raised |-> FALSE,
          value  |-> <<vs[n].name>>]
    ELSE LET parent == route_name(vs, vs[n]._parent, visiting \cup {n})
             value  == parent.value \o <<ROUTE_NAME_SEPARATOR, vs[n].name>>
         IN  IF parent.raised
             THEN [views |-> vs, raised |-> TRUE, value |-> NoCache]
             ELSE [views  |-> [parent.views EXCEPT ![n].route_name = value],
                   raised |-> FALSE,
                   value  |-> value]

(***************************************************************************)
(* The view tree of the test application (tests/app/__init__.py,           *)
(* create_admin): the admin group with its index view and the model group, *)
(* and the model group with its list and edit views.                       *)
(***************************************************************************)
AppNodes == {"asgi_admin", "index", "my_model", "list", "edit"}

\* the View objects among them; the others are ViewGroups
AppViewNodes == {"index", "list", "edit"}

\* ViewGroup.index_view
index_view(n) ==
    IF n = "asgi_admin" THEN "index" ELSE IF n = "my_model" THEN "list" ELSE "None"

\* the tree as create_admin assembles it, children before their parents;
\* AdminViewIndex("/") names the index view "/"
AssembledViews ==
    LET none     == [n \in AppNodes |-> NoView]
        index    == __init__(none, "index", "/", NoParent, <<>>)
        list     == [__init__(index, "list", "list", NoParent, <<>>)
                        EXCEPT !["list"].fields = fields]
        edit     == __init__(list, "edit", "edit", NoParent, <<>>)
        my_model == ModelViewGroup__init__(edit, "my_model", "my_model", NoParent,
                                           <<"list", "edit">>)
    IN  __init__(my_model, "asgi_admin", "asgi_admin", NoParent,
                 <<"index", "my_model">>)

\* reading the route_name of each of the nodes in turn
RECURSIVE read_route_names(_, _)
read_route_names(vs, nodes) ==
    IF nodes = <<>> THEN vs
    ELSE read_route_names(route_name(vs, Head(nodes), {}).views, Tail(nodes))

\* the tree once the routes are built: View.route names each view's route
\* by its route_name
AppViews == read_route_names(AssembledViews, <<"index", "list", "edit">>)

\* ViewBase.get_view: the first child of that name
get_view(vs, n, name) ==
    LET found == {i \in 1..Len(vs[n].children) : vs[vs[n].children[i]].name = name}
    IN  IF found = {} THEN "None"
        ELSE vs[n].children[CHOOSE i \in found : \A j \in found : i <= j]

\* ViewBase.get_breadcrumbs: the route names it reads, root first
RECURSIVE get_breadcrumbs(_, _, _)
get_breadcrumbs(vs, n, current) ==
    LET above == IF vs[n]._parent = NoParent THEN <<>>
                 ELSE get_breadcrumbs(vs, vs[n]._parent, current)
        index == get_view(vs, n, index_view(n))
    IN  IF n = current THEN above
        ELSE IF n \in AppViewNodes THEN Append(above, n)
        ELSE IF index_view(n) # "None" /\ index # "None" THEN Append(above, index)
        ELSE above

\* handling that registers the view with its parent once more
render_template_registering(vs, n) ==
    IF vs[n]._parent = NoParent THEN vs ELSE add_child(vs, vs[n]._parent, n)

\* what handling a request of view n does to the tree: the list view reads
\* its own route_name for its links, View.render_template reads the route
\* names of the breadcrumbs
render_template(vs, n) ==
    read_route_names(vs, (IF n = "list" THEN <<n>> ELSE <<>>)
                             \o get_breadcrumbs(vs, n, n))

\* the clients whose requests the application handles concurrently
Clients == {"c1", "c2"}

\* no request in flight
NoRequest ==
    [view |-> "none", method |-> "GET", query_params |-> <<>>, pk |-> None,
     form |-> [label |-> NoValue], async_validators |-> <<>>]

\* repository.list not called
NoListArgs ==
    [sorting |-> <<>>, offset |-> 0, limit |-> 0, query |-> None,
     query_fields |-> <<>>]

\* no request handled yet
NoResponse == [status |-> 0, context |-> <<>>]

\* a client that has sent nothing
Idle ==
    [pc |-> "idle", request |-> NoRequest, events |-> <<>>,
     list_args |-> NoListArgs, item |-> NoItem, awaited |-> <<>>,
     response |-> NoResponse]

\* the objects a tree is assembled from
Nodes == {"v1", "v2", "v3"}

\* the names an object may be given: v1 and v3 may share theirs
NodeNames(n) == IF n = "v2" THEN {"b"} ELSE {"a"}

\* the objects whose parent is assigned to directly
ParentAssigned == {"v3"}

\* no route_name read yet
NoRead == [node |-> NoParent, raised |-> FALSE, value |-> NoCache]

\* no call of a repository's list yet
NoListing ==
    [called |-> "none", sorting |-> <<>>, offset |-> 0, limit |-> 0,
     query |-> None, query_fields |-> None, total |-> 0, items |-> <<>>,
     page_len |-> 0]

\* no lookup of the current route yet
NoRouting ==
    [looked |-> FALSE, routes |-> <<>>, endpoint |-> NoEndpoint,
     raised |-> FALSE, route |-> NoRouteView]

\* no page visited before the current one, none gone back from
NoVisited == [pages |-> <<>>, backed |-> {}]

VARIABLES request, total, response, visited, _items, clients, views, read,
          listing, routing

vars == <<request, total, response, visited, _items, clients, views, read,
          listing, routing>>

\* the state of the calls of the functions checked on their own
function_vars == <<listing, routing>>

\* the state of the list page and its client
page_vars == <<request, total, response, visited>>

\* the state of the repository and the requests in flight
endpoint_vars == <<_items, clients>>

\* the state of the view tree and the last read of a route name
tree_vars == <<views, read>>

\* a tree of which nothing is constructed
NoViews == [n \in Nodes |-> NoView]


Init ==
    /\ \/ request \in SortingRequests /\ total = SortingTotal
       \/ request \in PageRequests /\ total \in 0..MaxTotal
    /\ response = NoResponse
    /\ visited = NoVisited
    /\ _items = InitialItems
    /\ clients = [c \in Clients |-> Idle]
    /\ views = NoViews
    /\ read = NoRead
    /\ listing = NoListing
    /\ routing = NoRouting

\* the offsets a client follows a link to
Reachable(offset) == offset \in (-MaxOffset)..(MaxOffset + MaxLimit)

\* ModelView.endpoint on a GET of the list view with the given query string
Handle(query_params) ==
    /\ request' = [query_params |-> query_params]
    /\ response' = model_endpoint(request', total)
    /\ UNCHANGED <<total, visited, endpoint_vars, tree_vars, function_vars>>

\* the client sends the request it typed in
Get ==
    /\ response = NoResponse
    /\ Handle(request.query_params)

\* the client follows the link of a column header
FollowSortingRoute(field_key) ==
    /\ response.status = 200
    /\ response.context.sorting.get_sorting_route[field_key] # KeyError
    /\ Handle(parse_qsl(response.context.sorting.get_sorting_route[field_key].query))

\* the client follows the 'next' link
FollowNextRoute ==
    /\ response.status = 200
    /\ response.context.pagination.next_route # NoRoute
    /\ Reachable(response.context.pagination.offset
                    + response.context.pagination.limit)
    /\ Handle(parse_qsl(response.context.pagination.next_route.query))

\* the client follows the 'previous' link
FollowPreviousRoute ==
    /\ response.status = 200
    /\ response.context.pagination.previous_route # NoRoute
    /\ Reachable(response.context.pagination.offset
                    - response.context.pagination.limit)
    /\ Handle(parse_qsl(response.context.pagination.previous_route.query))

Next ==
    \/ Get
    \/ \E field_key \in RouteKeys : FollowSortingRoute(field_key)
    \/ FollowNextRoute
    \/ FollowPreviousRoute

Spec == Init /\ [][Next]_vars

(***************************************************************************)
(* ModelView.endpoint, step by step.  A request is handled by a coroutine  *)
(* that gives way at each await on the repository; the coroutines of the   *)
(* clients interleave there.  Each client's record keeps the request in    *)
(* flight, the coroutine's position and the events of its handling.        *)
(***************************************************************************)
\* the list view's requests
ListViewRequests ==
    {[NoRequest EXCEPT !.view = "list", !.query_params = query_params] :
        query_params \in
            {<<>>,
             <<<<"query", <<>>>>>>,
             <<<<"query", <<" ">>>>>>,
             <<<<"query", <<" ", "B", " ">>>>, <<"sorting", <<"-", "b", ",", "a">>>>>>,
             <<<<"offset", <<"1">>>>, <<"limit", <<"1">>>>, <<"query", <<"x">>>>>>,
             <<<<"offset", <<"a">>>>>>}}

\* the edit view's requests: the key, the method, the submitted label and
\* what the view's async validators answer
EditViewRequests ==
    {[NoRequest EXCEPT !.view = "edit", !.pk = pk] : pk \in {<<"x">>, <<"z">>}}
    \cup
    {[NoRequest EXCEPT !.view = "edit", !.method = "POST", !.pk = pk,
                       !.form = [label |-> label],
                       !.async_validators = results] :
        pk \in {<<"x">>, <<"z">>},
        label \in {NoValue, <<>>, <<"a", "b">>, <<"a", "b", "c">>},
        results \in {<<>>, <<FALSE, TRUE>>, <<TRUE, TRUE>>}}

EndpointRequests == ListViewRequests \cup EditViewRequests

\* the coroutine of client c becomes rec; a rendering reads the view tree
Becomes(c, rec) ==
    /\ clients' = [clients EXCEPT ![c] = rec]
    /\ views' = IF /\ rec.events # <<>>
                   /\ "render" \in {rec.events[i] : i \in 1..Len(rec.events)}
                THEN render_template(views, rec.request.view)
                ELSE views
    /\ UNCHANGED <<page_vars, read, function_vars>>

\* the coroutine of client c ends with the given events and response
Ends(c, events, raised, answer) ==
    Becomes(c, [clients[c] EXCEPT !.pc = "done",
                                  !.events = __aexit__(events, raised),
                                  !.response = answer])

\* a client sends a request; the application starts its endpoint
Send(c, req) ==
    /\ clients[c].pc \in {"idle", "done"}
    /\ Becomes(c, [Idle EXCEPT !.pc = "entering", !.request = req])
    /\ UNCHANGED _items

\* async with self.get_repository(request) as repository
Acquire(c) ==
    /\ clients[c].pc = "entering"
    /\ Becomes(c, [clients[c] EXCEPT !.pc = "acquired", !.events = <<"acquire">>])
    /\ UNCHANGED _items

\* ModelViewList.model_endpoint up to 'await repository.list(...)'; a
\* ValueError of int() passes through the async with and is answered 500
ListCall(c) ==
    /\ clients[c].pc = "acquired"
    /\ clients[c].request.view = "list"
    /\ IF _get_pagination_input(clients[c].request).raised
       THEN Ends(c, clients[c].events, TRUE, [status |-> 500, context |-> <<>>])
       ELSE Becomes(c, [clients[c] EXCEPT
                           !.pc = "awaiting_list",
                           !.events = Append(@, "list"),
                           !.list_args = list_arguments(clients[c].request)])
    /\ UNCHANGED _items

\* repository.list returns; the outputs are built and the template rendered
ListReturn(c) ==
    /\ clients[c].pc = "awaiting_list"
    /\ LET args   == clients[c].list_args
           result == repository_list(_items, args.sorting, args.offset,
                                     args.limit, args.query, args.query_fields)
       IN  Ends(c, clients[c].events \o <<"list_return", "render">>, FALSE,
                model_endpoint(clients[c].request, result.total))
    /\ UNCHANGED _items

\* repository.list raises
ListRaise(c) ==
    /\ clients[c].pc = "awaiting_list"
    /\ Ends(c, Append(clients[c].events, "list_raise"), TRUE,
            [status |-> 500, context |-> <<>>])
    /\ UNCHANGED _items

\* the request is cancelled while the coroutine awaits the repository:
\* CancelledError is raised at the await and no response is sent
Cancel(c) ==
    /\ clients[c].pc \in {"awaiting_list", "awaiting_get_by_pk", "awaiting_update"}
    /\ Ends(c, Append(clients[c].events, "cancelled"), TRUE, NoResponse)
    /\ UNCHANGED _items

\* ModelViewEdit.model_endpoint up to 'await repository.get_by_pk(pk)'
GetByPkCall(c) ==
    /\ clients[c].pc = "acquired"
    /\ clients[c].request.view = "edit"
    /\ Becomes(c, [clients[c] EXCEPT !.pc = "awaiting_get_by_pk",
                                     !.events = Append(@, "get_by_pk")])
    /\ UNCHANGED _items

\* repository.get_by_pk returns: not found, or the form is built and, on a
\* POST, validated; a valid form goes on to 'await repository.update(...)'
GetByPkReturn(c) ==
    /\ clients[c].pc = "awaiting_get_by_pk"
    /\ LET req    == clients[c].request
           found  == get_by_pk_or_404(repository_get_by_pk(_items, req.pk))
           form   == form_class(req.form, found.item)
           events == Append(clients[c].events, "get_by_pk_return")
           \* 'form.validate() and await self._async_validate(...)'
           sync   == validate(form)
           async  == IF sync THEN _async_validate(req.async_validators)
                     ELSE [valid |-> FALSE, awaited |-> <<>>]
       IN  IF found.raised
           THEN Ends(c, events, TRUE, [status |-> 404, context |-> <<>>])
           ELSE IF req.method = "POST"
           THEN IF sync /\ async.valid
                THEN Becomes(c, [clients[c] EXCEPT
                                    !.pc = "awaiting_update",
                                    !.events = Append(events, "update"),
                                    !.item = found.item,
                                    !.awaited = async.awaited])
                ELSE Becomes(c, [clients[c] EXCEPT
                                    !.pc = "done",
                                    !.events = __aexit__(Append(events, "render"), FALSE),
                                    !.item = found.item,
                                    !.awaited = async.awaited,
                                    !.response =
                                        [status  |-> 400,
                                         context |-> [item |-> found.item,
                                                      form |-> form]]])
           ELSE Becomes(c, [clients[c] EXCEPT
                               !.pc = "done",
                               !.events = __aexit__(Append(events, "render"), FALSE),
                               !.item = found.item,
                               !.response =
                                   [status  |-> 200,
                                    context |-> [item |-> found.item,
                                                 form |-> form]]])
    /\ UNCHANGED _items

\* repository.update returns: the repository holds the updated item and the
\* template is rendered with it
UpdateReturn(c) ==
    /\ clients[c].pc = "awaiting_update"
    /\ LET form   == form_class(clients[c].request.form, clients[c].item)
           result == repository_update(_items, clients[c].item, form_data_of(form))
       IN  /\ _items' = result.items
           /\ Becomes(c, [clients[c] EXCEPT
                             !.pc = "done",
                             !.events = __aexit__(@ \o <<"update_return", "render">>,
                                                  FALSE),
                             !.item = result.item,
                             !.response =
                                 [status  |-> 200,
                                  context |-> [item |-> result.item,
                                               form |-> form]]])

\* repository.get_by_pk or repository.update raises
EditRaise(c) ==
    /\ clients[c].pc \in {"awaiting_get_by_pk", "awaiting_update"}
    /\ Ends(c, Append(clients[c].events, "repository_raise"), TRUE,
            [status |-> 500, context |-> <<>>])
    /\ UNCHANGED _items

InitEndpoint ==
    /\ request = [query_params |-> <<>>]
    /\ total = 0
    /\ response = NoResponse
    /\ visited = NoVisited
    /\ _items = InitialItems
    /\ clients = [c \in Clients |-> Idle]
    /\ views = AppViews
    /\ read = NoRead
    /\ listing = NoListing
    /\ routing = NoRouting

NextEndpoint ==
    \E c \in Clients :
        \/ \E req \in EndpointRequests : Send(c, req)
        \/ Acquire(c)
        \/ ListCall(c)
        \/ ListReturn(c)
        \/ ListRaise(c)
        \/ Cancel(c)
        \/ GetByPkCall(c)
        \/ GetByPkReturn(c)
        \/ UpdateReturn(c)
        \/ EditRaise(c)

SpecEndpoint == InitEndpoint /\ [][NextEndpoint]_vars

(***************************************************************************)
(* Assembling a view tree: objects are constructed with parent and         *)
(* children arguments, added as children, given a parent, and their        *)
(* route_name is read, in any order.                                       *)
(***************************************************************************)
\* the objects constructed so far
Constructed == {n \in Nodes : views[n].constructed}

\* the children arguments: up to two constructed objects
ChildrenArgs ==
    {<<>>} \cup {<<c>> : c \in Constructed}
           \cup {<<c, d>> : c \in Constructed, d \in Constructed}

\* the children lists stay short: MaxChildren entries in all
MaxChildren == 2

RECURSIVE Entries(_, _)
Entries(vs, nodes) ==
    IF nodes = {} THEN 0
    ELSE LET n == CHOOSE n \in nodes : TRUE
         IN  Len(vs[n].children) + Entries(vs, nodes \ {n})

Short(vs) == Entries(vs, Nodes) <= MaxChildren

\* a step of the assembly; the last read is of a tree that is no more
Assemble(vs) ==
    /\ Short(vs)
    /\ views' = vs
    /\ read' = NoRead
    /\ UNCHANGED <<page_vars, endpoint_vars, function_vars>>

\* ViewGroup(path, name, parent=..., children=...)
Construct(n, name, parent, children) ==
    /\ ~views[n].constructed
    /\ Assemble(__init__(views, n, name, parent, children))

\* View(path, name, parent=...): children=[]
ConstructView(n, name, parent) ==
    /\ ~views[n].constructed
    /\ Assemble(__init__(views, n, name, parent, <<>>))

\* ModelViewGroup(path, name, parent=..., children=...)
ConstructModelViewGroup(n, name, parent, children) ==
    /\ ~views[n].constructed
    /\ Assemble(ModelViewGroup__init__(views, n, name, parent, children))

\* n.add_child(child)
AddChild(n, child) == Assemble(add_child(views, n, child))

\* n.parent = parent
SetParent(n, parent) == Assemble(set_parent(views, n, parent))

\* n.route_name
ReadRouteName(n) ==
    LET result == route_name(views, n, {})
    IN  /\ views' = result.views
        /\ read' = [node |-> n, raised |-> result.raised, value |-> result.value]
        /\ UNCHANGED <<page_vars, endpoint_vars, function_vars>>

InitTree ==
    /\ request = [query_params |-> <<>>]
    /\ total = 0
    /\ response = NoResponse
    /\ visited = NoVisited
    /\ _items = InitialItems
    /\ clients = [c \in Clients |-> Idle]
    /\ views = NoViews
    /\ read = NoRead
    /\ listing = NoListing
    /\ routing = NoRouting

NextTree ==
    \/ \E n \in Nodes : \E name \in NodeNames(n) :
           \E parent \in Constructed \cup {NoParent} :
               \/ \E children \in ChildrenArgs : Construct(n, name, parent, children)
               \/ ConstructView(n, name, parent)
               \/ \E children \in ChildrenArgs :
                      ConstructModelViewGroup(n, name, parent, children)
    \/ \E n \in Constructed : \E child \in Constructed : AddChild(n, child)
    \/ \E n \in Constructed \cap ParentAssigned : \E parent \in Constructed :
           SetParent(n, parent)
    \/ \E n \in Constructed : ReadRouteName(n)

SpecTree == InitTree /\ [][NextTree]_vars

(***************************************************************************)
(* The repositories' list on its own: any sort spec, window, query and     *)
(* query fields, on a table of four items.                                 *)
(***************************************************************************)
\* the items of the table, in insertion order
TableItems ==
    <<[id |-> <<"x">>, label |-> <<"A", "b", "c">>, created_at |-> <<"1">>],
      [id |-> <<"y">>, label |-> <<"b", "_", "x">>, created_at |-> <<"2">>],
      [id |-> <<"z">>, label |-> <<"a", "B", "c">>, created_at |-> <<"3">>],
      [id |-> <<"a">>, label |-> <<"A", "b", "c">>, created_at |-> <<"3">>]>>

\* the sort specs of the calls
ListSortings ==
    LET cola == <<"c", "o", "l", "a">>
        colb == <<"c", "o", "l", "b">>
        colc == <<"c", "o", "l", "c">>
    IN  {<<>>, <<<<colb, ASC>>>>, <<<<colb, DESC>>>>,
         <<<<colb, ASC>>, <<cola, DESC>>>>, <<<<colc, DESC>>, <<colb, ASC>>>>}

\* the queries of the calls
ListQueries ==
    {None, <<"b">>, <<"A", "B">>, <<"z">>, <<"y", "y">>, <<"_">>, <<"%">>,
     <<"a", "_", "c">>}

\* the query fields of the calls
ListQueryFields == {<<"id", "label">>, <<"label">>}

\* the windows of the calls
ListOffsets == 0..5

ListLimits == 1..3

\* the arguments of a call
Listings ==
    {[NoListing EXCEPT !.sorting = sorting, !.offset = offset, !.limit = limit,
                       !.query = query, !.query_fields = query_fields_] :
        sorting \in ListSortings, offset \in ListOffsets, limit \in ListLimits,
        query \in ListQueries, query_fields_ \in ListQueryFields}

\* await MyModelRepository(items).list(...)
ListMyModelRepository ==
    /\ listing.called = "none"
    /\ LET result == repository_list(TableItems, listing.sorting, listing.offset,
                                     listing.limit, listing.query,
                                     listing.query_fields)
       IN  listing' = [listing EXCEPT !.called = "MyModelRepository",
                                      !.total = result.total,
                                      !.items = result.items,
                                      !.page_len = Len(result.items)]
    /\ UNCHANGED <<page_vars, endpoint_vars, tree_vars, routing>>

\* await RepositoryBase(session).list(...)
ListRepositoryBase ==
    /\ listing.called = "none"
    /\ LET result == sqlalchemy_list(TableItems, listing.sorting, listing.offset,
                                     listing.limit, listing.query,
                                     listing.query_fields)
       IN  listing' = [listing EXCEPT !.called = "RepositoryBase",
                                      !.total = result.total,
                                      !.page_len = result.page_len]
    /\ UNCHANGED <<page_vars, endpoint_vars, tree_vars, routing>>

InitRepository ==
    /\ request = [query_params |-> <<>>]
    /\ total = 0
    /\ response = NoResponse
    /\ visited = NoVisited
    /\ _items = InitialItems
    /\ clients = [c \in Clients |-> Idle]
    /\ views = NoViews
    /\ read = NoRead
    /\ listing \in Listings
    /\ routing = NoRouting

NextRepository == ListMyModelRepository \/ ListRepositoryBase

SpecRepository == InitRepository /\ [][NextRepository]_vars

(***************************************************************************)
(* The lookup of the current route on its own: any nested route list of    *)
(* up to three routes and mounts, and any endpoint.                        *)
(***************************************************************************)
\* Route(path, endpoint)
RouteTo(endpoint) == [endpoint |-> endpoint, routes |-> <<>>]

\* Mount(path, routes=routes)
Mount(routes) == [endpoint |-> NoEndpoint, routes |-> routes]

\* the lists of up to two, and of up to three, of the given routes
ListsOfTwo(S) == {<<>>} \cup {<<a>> : a \in S} \cup {<<a, b>> : a \in S, b \in S}

ListsOfThree(S) ==
    ListsOfTwo(S) \cup {<<a, b, c>> : a \in S, b \in S, c \in S}

\* the routes of the views
Routes == {RouteTo("e1"), RouteTo("e2")}

\* the mounts of groups of views, the empty group included
Mounts == {Mount(routes) : routes \in ListsOfTwo(Routes)}

\* app.routes: routes and mounts side by side, or everything under one mount
RouteLists ==
    ListsOfThree(Routes \cup Mounts)
        \cup {<<Mount(routes)>> : routes \in ListsOfTwo(Routes \cup Mounts)}

\* the lookups: the routes of the application and request.scope["endpoint"]
Routings ==
    {[NoRouting EXCEPT !.routes = routes, !.endpoint = endpoint] :
        routes \in RouteLists, endpoint \in {"e1", "e2", "e3"}}

\* get_current_route(request)
GetCurrentRoute ==
    /\ ~routing.looked
    /\ LET result == _get_current_route(routing.routes, routing.endpoint)
       IN  routing' = [routing EXCEPT !.looked = TRUE,
                                      !.raised = result.raised,
                                      !.route = result.route]
    /\ UNCHANGED <<page_vars, endpoint_vars, tree_vars, listing>>

InitRouting ==
    /\ request = [query_params |-> <<>>]
    /\ total = 0
    /\ response = NoResponse
    /\ visited = NoVisited
    /\ _items = InitialItems
    /\ clients = [c \in Clients |-> Idle]
    /\ views = NoViews
    /\ read = NoRead
    /\ listing = NoListing
    /\ routing \in Routings

NextRouting == GetCurrentRoute

SpecRouting == InitRouting /\ [][NextRouting]_vars

(***************************************************************************)
(* Paging through the list: the client asks for the first page and then    *)
(* follows the 'next' links; from a page it came to by a 'next' link it    *)
(* may go back once by the 'previous' link.                                *)
(***************************************************************************)
\* the requests for a first page: offset absent or 0, limit absent or
\* positive
TraversalRequests ==
    {[query_params |-> e \o l \o o] :
        e \in ExtraParts,
        l \in {<<>>} \cup {<< <<"limit", str(n)>> >> : n \in 1..MaxLimit},
        o \in {<<>>, << <<"offset", <<"0">>>> >>}}

\* the page of the response
CurrentPage ==
    [offset |-> response.context.pagination.offset,
     limit  |-> response.context.pagination.limit,
     range  |-> response.context.pagination.range]

\* the list view answers the request; pages are the pages before this one
Visit(query_params, pages, backed) ==
    /\ request' = [query_params |-> query_params]
    /\ response' = model_endpoint([query_params |-> query_params], total)
    /\ visited' = [pages |-> pages, backed |-> backed]
    /\ UNCHANGED <<total, endpoint_vars, tree_vars, function_vars>>

\* the client asks for the first page
TraverseGet ==
    /\ response = NoResponse
    /\ Visit(request.query_params, <<>>, {})

\* the client follows the 'next' link
TraverseNext ==
    /\ response.status = 200
    /\ response.context.pagination.next_route # NoRoute
    /\ Visit(parse_qsl(response.context.pagination.next_route.query),
             Append(visited.pages, CurrentPage), visited.backed)

\* the client follows the 'previous' link of a page it came to by 'next'
TraverseBack ==
    /\ response.status = 200
    /\ visited.pages # <<>>
    /\ response.context.pagination.offset \notin visited.backed
    /\ response.context.pagination.previous_route # NoRoute
    /\ Visit(parse_qsl(response.context.pagination.previous_route.query),
             SubSeq(visited.pages, 1, Len(visited.pages) - 1),
             visited.backed \cup {response.context.pagination.offset})

InitTraversal ==
    /\ request \in TraversalRequests
    /\ total \in 0..MaxTotal
    /\ response = NoResponse
    /\ visited = NoVisited
    /\ _items = InitialItems
    /\ clients = [c \in Clients |-> Idle]
    /\ views = NoViews
    /\ read = NoRead
    /\ listing = NoListing
    /\ routing = NoRouting

NextTraversal == TraverseGet \/ TraverseNext \/ TraverseBack

SpecTraversal == InitTraversal /\ [][NextTraversal]_vars

(***************************************************************************)
(* Vocabulary of the properties                                            *)
(***************************************************************************)
\* the list page was rendered
Rendered == response.status = 200

\* the sort spec decoded from the current request
CurrentSpec == response.context.sorting.fields

\* the link get_sorting_route(field_key) of the current page
Route(field_key) == response.context.sorting.get_sorting_route[field_key]

\* the declared field keys that are sortable
SortableKeys == {k \in DOMAIN fields : sortable(fields[k])}

\* the token of one <<field, direction>> pair
Token(pair) == IF pair[2] = DESC THEN <<"-">> \o pair[1] ELSE pair[1]

\* the joined token list of a sort spec
Encode(spec) == join(<<",">>, [i \in 1..Len(spec) |-> Token(spec[i])])

\* the 'sorting' parameter a link carries
SortingOf(link) == get(parse_qsl(link.query), "sorting", None)

\* a sort spec without one field
Without(spec, field_key) == SelectSeq(spec, LAMBDA pair : pair[1] # field_key)

\* a sort spec with the direction of one field replaced
WithOrder(spec, field_key, order) ==
    [i \in 1..Len(spec) |->
        IF spec[i][1] = field_key THEN <<field_key, order>> ELSE spec[i]]

\* the direction of a field in a sort spec, or "absent"
OrderIn(spec, field_key) ==
    IF has_key(spec, field_key) THEN order_of(spec, field_key) ELSE "absent"

(***************************************************************************)
(* Sort toggle links                                                       *)
(***************************************************************************)
\* C1: for a field that is ASCENDING in the current sort spec, the link of
\* get_sorting_route carries the current token list with the field's token
\* replaced by '-field' and every other field's token as it is.
SortToggleAscending ==
    Rendered =>
        \A f \in SortableKeys :
            OrderIn(CurrentSpec, f) = ASC =>
                SortingOf(Route(f)) = Encode(WithOrder(CurrentSpec, f, DESC))

\* C2: for a field that is DESCENDING in the current sort spec, the link of
\* get_sorting_route carries the current token list without that field and
\* with every other field's token as it is.
SortToggleDescending ==
    Rendered =>
        \A f \in SortableKeys :
            OrderIn(CurrentSpec, f) = DESC =>
                SortingOf(Route(f)) = Encode(Without(CurrentSpec, f))

\* C3: for a sortable field that is not in the current sort spec, the link
\* of get_sorting_route carries the current token list with the field
\* appended at the end as ASCENDING.
SortToggleAbsent ==
    Rendered =>
        \A f \in SortableKeys :
            OrderIn(CurrentSpec, f) = "absent" =>
                SortingOf(Route(f)) = Encode(Append(CurrentSpec, <<f, ASC>>))

\* the direction that follows a direction in the toggle cycle
NextOrder(order) ==
    CASE order = ASC  -> DESC
      [] order = DESC -> "absent"
      [] OTHER        -> ASC

\* the step in which the client follows get_sorting_route(field_key)
FollowsSortingRoute(field_key) ==
    /\ Rendered
    /\ Route(field_key) # KeyError
    /\ request' = [query_params |-> parse_qsl(Route(field_key).query)]
    /\ response'.status = 200

\* C4: following the get_sorting_route link of a sortable field moves the
\* field one step along ASCENDING -> DESCENDING -> absent -> ASCENDING in
\* the decoded sort spec, and every other field keeps its place and its
\* direction.
SortToggleCycle ==
    [][\A f \in SortableKeys :
          FollowsSortingRoute(f) =>
              /\ OrderIn(response'.context.sorting.fields, f)
                     = NextOrder(OrderIn(CurrentSpec, f))
              /\ Without(response'.context.sorting.fields, f)
                     = Without(CurrentSpec, f)]_vars

\* the names of the parameters of a query string
Names(query_params) == {query_params[i][1] : i \in 1..Len(query_params)}

\* C5: the link of get_sorting_route carries every parameter of the current
\* request other than 'sorting' with the value the request gives it; 'offset'
\* in particular keeps its value.
SortingRouteKeepsOtherParams ==
    Rendered =>
        \A f \in RouteKeys :
            Route(f) # KeyError =>
                LET link == parse_qsl(Route(f).query)
                IN  /\ Names(link) \ {"sorting"}
                           = Names(request.query_params) \ {"sorting"}
                    /\ \A name \in Names(request.query_params) \ {"sorting"} :
                           get(link, name, None)
                               = get(request.query_params, name, None)

\* a page whose request has an offset other than 0, a limit, a text query
\* and an extra parameter, and whose header links were built
SortingRouteKeepsOtherParamsWitness ==
    /\ Rendered
    /\ get(request.query_params, "offset", None) = <<"0", "4">>
    /\ get(request.query_params, "limit", None) = <<"2">>
    /\ get(request.query_params, "query", None) = <<" ", "a", ",", "b">>
    /\ get(request.query_params, "x", None) = <<"2">>
    /\ SortingOf(Route(<<"a">>)) = <<"-", "a">>

\* C6: get_sorting_route raises for every key that is not a sortable field,
\* whether declared with sorting=None or not declared at all.
NonSortableRouteRaises ==
    Rendered =>
        \A k \in RouteKeys :
            k \notin SortableKeys => Route(k) = KeyError

(***************************************************************************)
(* Sort decode                                                             *)
(***************************************************************************)
\* the 'sorting' parameter of the current request
SortingParam == get(request.query_params, "sorting", None)

\* the positions of the commas of a string
Commas(s) == {i \in 1..Len(s) : s[i] = ","}

\* the number of comma-separated pieces of a string
PieceCount(s) == Cardinality(Commas(s)) + 1

\* the position of the k-th comma of a string; 0 and Len(s) + 1 stand for
\* the ends of the string
CommaAt(s, k) ==
    IF k = 0 THEN 0
    ELSE IF k = PieceCount(s) THEN Len(s) + 1
    ELSE CHOOSE p \in Commas(s) :
             Cardinality({q \in Commas(s) : q < p}) = k - 1

\* the k-th comma-separated piece of a string
Piece(s, k) == SubSeq(s, CommaAt(s, k - 1) + 1, CommaAt(s, k) - 1)

\* the field key and the direction a piece asks for
PieceKey(t) == IF Len(t) > 0 /\ t[1] = "-" THEN SubSeq(t, 2, Len(t)) ELSE t

PieceOrder(t) == IF Len(t) > 0 /\ t[1] = "-" THEN DESC ELSE ASC

\* the pieces of a string that name a given field key
PiecesOf(s, key) == {k \in 1..PieceCount(s) : PieceKey(Piece(s, k)) = key}

\* the smallest and the largest element of a non-empty set of numbers
Least(S) == CHOOSE x \in S : \A y \in S : x <= y

Greatest(S) == CHOOSE x \in S : \A y \in S : y <= x

\* the keys of a sort spec
SpecKeys(spec) == {spec[i][1] : i \in 1..Len(spec)}

\* C7: without a 'sorting' parameter the decoded spec is empty; otherwise
\* the spec holds exactly the sortable fields named by the comma-separated
\* tokens, a field named by one token is DESCENDING if the token has a
\* leading '-' and ASCENDING if not, and the fields stand in the order in
\* which their tokens were given.
SortDecode ==
    Rendered =>
        IF SortingParam = None
        THEN CurrentSpec = <<>>
        ELSE /\ SpecKeys(CurrentSpec)
                    = {key \in SortableKeys : PiecesOf(SortingParam, key) # {}}
             /\ \A key \in SpecKeys(CurrentSpec) :
                    \A k \in PiecesOf(SortingParam, key) :
                        PiecesOf(SortingParam, key) = {k} =>
                            OrderIn(CurrentSpec, key)
                                = PieceOrder(Piece(SortingParam, k))
             /\ \A i, j \in 1..Len(CurrentSpec) :
                    i < j =>
                        Least(PiecesOf(SortingParam, CurrentSpec[i][1]))
                            < Least(PiecesOf(SortingParam, CurrentSpec[j][1]))

\* a page decoded from three tokens of three fields, in both directions
SortDecodeWitness ==
    /\ Rendered
    /\ SortingParam = <<"c", ",", "-", "a", ",", "b">>
    /\ CurrentSpec = <<<<<<"c">>, ASC>>, <<<<"a">>, DESC>>, <<<<"b">>, ASC>>>>

\* the 'offset' and 'limit' parameters are absent or integers
PageParamsAreIntegers ==
    \A name \in {"offset", "limit"} :
        get(request.query_params, name, None) # None =>
            IsIntLiteral(get(request.query_params, name, None))

\* C8: whatever the 'sorting' parameter is, the decoded spec holds only
\* declared sortable fields, and the request is answered without an error
\* unless 'offset' or 'limit' is malformed.
UnknownSortTokensDropped ==
    response # NoResponse =>
        /\ PageParamsAreIntegers => Rendered
        /\ Rendered => SpecKeys(CurrentSpec) \subseteq SortableKeys

\* a page decoded from a non-sortable field, an empty token and a key that
\* is not declared
UnknownSortTokensDroppedWitness ==
    /\ Rendered
    /\ SortingParam = <<"-", "n", ",", ",", "-", "-", "a">>
    /\ CurrentSpec = <<>>

\* C9: a field named by several tokens is in the decoded spec once, with
\* the direction of the last of its tokens and, relative to the other
\* fields, at the place of the first of its tokens.
DuplicateSortTokens ==
    (Rendered /\ SortingParam # None) =>
        \A key \in SortableKeys :
            Cardinality(PiecesOf(SortingParam, key)) > 1 =>
                /\ Len(SelectSeq(CurrentSpec, LAMBDA pair : pair[1] = key)) = 1
                /\ OrderIn(CurrentSpec, key)
                       = PieceOrder(Piece(SortingParam,
                                          Greatest(PiecesOf(SortingParam, key))))
                /\ \A i, j \in 1..Len(CurrentSpec) :
                       (CurrentSpec[i][1] = key /\ CurrentSpec[j][1] # key) =>
                           (i < j <=>
                               Least(PiecesOf(SortingParam, key))
                                   < Least(PiecesOf(SortingParam,
                                                    CurrentSpec[j][1])))

\* a page decoded from a field named twice, in two directions, around
\* another field
DuplicateSortTokensWitness ==
    /\ Rendered
    /\ SortingParam = <<"a", ",", "b", ",", "-", "a">>
    /\ CurrentSpec = <<<<<<"a">>, DESC>>, <<<<"b">>, ASC>>>>

(***************************************************************************)
(* Pagination links                                                        *)
(***************************************************************************)
\* the pagination output of the current page
Pagination == response.context.pagination

\* C10: for offset >= 0, limit >= 0 and total >= 0 the next link is present
\* iff offset + limit < total and the previous link is present iff
\* offset - limit >= 0.
PaginationLinksPresent ==
    (Rendered /\ Pagination.offset >= 0 /\ Pagination.limit >= 0 /\ total >= 0) =>
        /\ Pagination.next_route # NoRoute
               <=> Pagination.offset + Pagination.limit < total
        /\ Pagination.previous_route # NoRoute
               <=> Pagination.offset - Pagination.limit >= 0

\* a page in the middle of the list, with both links, and a last page whose
\* window ends exactly at the total
PaginationLinksPresentWitness ==
    /\ Rendered
    /\ Pagination.offset = 3 /\ Pagination.limit = 3 /\ total = 10
    /\ Pagination.next_route # NoRoute
    /\ Pagination.previous_route # NoRoute

\* C11 (as stated): when the repository reports no item, the page has
\* neither a next nor a previous link, whatever offset and limit are.
EmptyTotalNoLinks ==
    (Rendered /\ total = 0) =>
        /\ Pagination.next_route = NoRoute
        /\ Pagination.previous_route = NoRoute

\* C11 (amended): when the repository reports no item and offset >= 0 and
\* limit >= 0, the page has no next link, and it has no previous link
\* exactly when offset < limit.
EmptyTotalLinks ==
    (Rendered /\ total = 0 /\ Pagination.offset >= 0 /\ Pagination.limit >= 0) =>
        /\ Pagination.next_route = NoRoute
        /\ Pagination.previous_route = NoRoute
               <=> Pagination.offset < Pagination.limit

\* the first page of an empty repository
EmptyTotalLinksWitness ==
    /\ Rendered
    /\ total = 0
    /\ Pagination.offset = 0 /\ Pagination.limit = 3
    /\ Pagination.next_route = NoRoute
    /\ Pagination.previous_route = NoRoute

\* C12: decoding the query string of a next link with _get_pagination_input
\* gives offset + limit and the same limit, also when the request had no
\* 'limit' and the default was used, and every other parameter of the
\* request has in the link the value the request gives it.
NextRouteRoundTrip ==
    (Rendered /\ Pagination.next_route # NoRoute) =>
        LET link    == parse_qsl(Pagination.next_route.query)
            decoded == _get_pagination_input([query_params |-> link])
        IN  /\ ~decoded.raised
            /\ decoded.offset = Pagination.offset + Pagination.limit
            /\ decoded.limit = Pagination.limit
            /\ Names(link) \ {"offset"} = Names(request.query_params) \ {"offset"}
            /\ \A name \in Names(request.query_params) \ {"offset"} :
                   get(link, name, None) = get(request.query_params, name, None)

\* a page with a next link whose request gave no 'limit' but a sorting, a
\* text query and an extra parameter
NextRouteRoundTripWitness ==
    /\ Rendered
    /\ Pagination.next_route # NoRoute
    /\ get(request.query_params, "limit", None) = None
    /\ Pagination.limit = default_limit
    /\ get(request.query_params, "query", None) = <<" ", "a", ",", "b">>
    /\ SortingParam = <<"-", "b", ",", "a">>

\* the <<name, value>> pairs of a query string other than those of 'offset'
PairsButOffset(query_params) ==
    {query_params[i] : i \in {k \in 1..Len(query_params) :
                                  query_params[k][1] # "offset"}}

\* C13: the next and the previous link carry every <<name, value>> pair of
\* the request other than 'offset', all the values of a name given several
\* times included.
PaginationRoutesEchoAllValues ==
    Rendered =>
        \A route \in {Pagination.next_route, Pagination.previous_route} :
            route # NoRoute =>
                PairsButOffset(parse_qsl(route.query))
                    = PairsButOffset(request.query_params)

\* C14: the range of the pagination output is
\* (offset, min(offset + limit, total)).
PaginationRange ==
    Rendered =>
        Pagination.range =
            <<Pagination.offset,
              IF Pagination.offset + Pagination.limit <= total
              THEN Pagination.offset + Pagination.limit
              ELSE total>>

\* the page of offset 3 and limit 3 out of 10 items, and its range
PaginationRangeWitness ==
    /\ Rendered
    /\ Pagination.offset = 3 /\ Pagination.limit = 3 /\ total = 10
    /\ Pagination.range = <<3, 6>>

\* C15: a request whose 'offset' or 'limit' is not an integer is answered
\* with a 4xx status.
MalformedPageParamsClientError ==
    (response # NoResponse /\ ~PageParamsAreIntegers) =>
        response.status \in 400..499


(***************************************************************************)
(* Vocabulary of the claims about the endpoint.                            *)
(***************************************************************************)
\* how often an event happened while the client's request was handled
Count(c, op) ==
    Cardinality({i \in 1..Len(clients[c].events) : clients[c].events[i] = op})

\* the position of the first event op, 0 when it never happened
First(c, op) ==
    IF Count(c, op) = 0 THEN 0
    ELSE CHOOSE i \in 1..Len(clients[c].events) :
             /\ clients[c].events[i] = op
             /\ \A j \in 1..(i - 1) : clients[c].events[j] # op

\* the client's request has been handled to its end
Done(c) == clients[c].pc = "done"

\* the list view called repository.list for the client's request
ListCalled(c) == clients[c].request.view = "list" /\ Count(c, "list") > 0

\* the list page was rendered for the client's request
ListRendered(c) ==
    /\ clients[c].request.view = "list"
    /\ Done(c)
    /\ clients[c].response.status = 200

\* the text filter the claim expects for the client's request
ExpectedQuery(c) ==
    LET query == get(clients[c].request.query_params, "query", None)
    IN  IF query # None /\ strip(query) # <<>> THEN strip(query) ELSE None

\* C16: the text filter passed to repository.list and to the render context
\* is the trimmed 'query' parameter when it is present and non-empty after
\* trimming, and None when the parameter is absent or empty/whitespace-only
QueryDecode ==
    \A c \in Clients :
        /\ ListCalled(c) => clients[c].list_args.query = ExpectedQuery(c)
        /\ ListRendered(c) => clients[c].response.context.query = ExpectedQuery(c)


\* the sort spec the claim expects: each decoded field key mapped to its
\* configured sorting attribute, in spec order
ExpectedSorting(c) ==
    LET spec == _get_sorting_input(clients[c].request)
    IN  [i \in 1..Len(spec) |-> <<fields[spec[i][1]].sorting, spec[i][2]>>]

\* C17: one list-page render performs exactly one repository.list call,
\* issued after the repository is acquired and completed before the template
\* is rendered; its arguments are the decoded sort spec (each field key
\* mapped to its sorting attribute, in spec order), the decoded offset and
\* limit, the decoded query and the view's query_fields
OneListCallPerRender ==
    \A c \in Clients :
        /\ clients[c].request.view = "list" =>
               /\ Count(c, "list") <= 1
               /\ Count(c, "list_return") <= Count(c, "list")
               /\ Count(c, "render") <= Count(c, "list_return")
        /\ ListRendered(c) =>
               /\ Count(c, "list") = 1
               /\ Count(c, "list_return") = 1
               /\ Count(c, "render") = 1
               /\ First(c, "acquire") > 0
               /\ First(c, "acquire") < First(c, "list")
               /\ First(c, "list") < First(c, "list_return")
               /\ First(c, "list_return") < First(c, "render")
        /\ ListCalled(c) =>
               /\ clients[c].list_args.sorting = ExpectedSorting(c)
               /\ clients[c].list_args.offset
                      = _get_pagination_input(clients[c].request).offset
               /\ clients[c].list_args.limit
                      = _get_pagination_input(clients[c].request).limit
               /\ clients[c].list_args.query = _get_query_input(clients[c].request)
               /\ clients[c].list_args.query_fields = <<"id", "label">>

\* a list page rendered for a request that sorts by two fields, filters and
\* pages
OneListCallPerRenderWitness ==
    \E c \in Clients :
        /\ ListRendered(c)
        /\ clients[c].list_args.sorting
               = <<<<<<"c", "o", "l", "b">>, DESC>>, <<<<"c", "o", "l", "a">>, ASC>>>>
        /\ clients[c].list_args.query = <<"B">>
        /\ \E d \in Clients :
               /\ ListRendered(d)
               /\ clients[d].list_args.offset = 1
               /\ clients[d].list_args.limit = 1


\* the events that use the repository or the response built with it
Uses == {"list", "list_return", "list_raise", "get_by_pk", "get_by_pk_return",
         "update", "update_return", "repository_raise", "render"}

\* C18: for every request to a ModelView the repository acquired through
\* get_repository is released exactly once after handling, also when
\* model_endpoint raises or the request is cancelled while awaiting the
\* repository; it is never used after release
ReleasedExactlyOnce ==
    \A c \in Clients :
        LET events == clients[c].events
        IN  /\ Count(c, "acquire") <= 1
            /\ Count(c, "release") <= Count(c, "acquire")
            /\ Done(c) => Count(c, "acquire") = 1 /\ Count(c, "release") = 1
            /\ ~Done(c) => Count(c, "release") = 0
            /\ \A i \in 1..Len(events) : \A j \in 1..Len(events) :
                   events[i] = "release" /\ j > i => events[j] \notin Uses
            /\ \A i \in 1..Len(events) :
                   events[i] \in Uses => First(c, "acquire") \in 1..(i - 1)

\* one request ended by a cancellation or a repository error and another
\* by not-found, both with the repository released
ReleasedExactlyOnceWitness ==
    \E c \in Clients : \E d \in Clients :
        /\ Done(c)
        /\ Count(c, "cancelled") + Count(c, "repository_raise")
               + Count(c, "list_raise") = 1
        /\ Count(c, "release") = 1
        /\ Done(d)
        /\ clients[d].response.status = 404
        /\ Count(d, "release") = 1

\* the repository holds an item under the key
Holds(pk) == \E i \in 1..Len(_items) : _items[i].id = pk

\* the item the repository holds under the key
Stored(pk) == _items[CHOOSE i \in 1..Len(_items) : _items[i].id = pk]

\* repository.get_by_pk has returned for the client's edit request
Looked(c) ==
    clients[c].request.view = "edit" /\ Count(c, "get_by_pk_return") = 1

\* C19: on an edit view, when repository.get_by_pk returns None for the
\* requested pk the request ends with a 404 response and neither
\* repository.update nor template rendering happens; when it returns an
\* item, that item is returned
NotFound ==
    \A c \in Clients :
        Looked(c) =>
            IF Holds(clients[c].request.pk)
            THEN /\ clients[c].item.id = clients[c].request.pk
                 /\ clients[c].response.status # 404
            ELSE /\ Done(c)
                 /\ clients[c].response.status = 404
                 /\ clients[c].item = NoItem
                 /\ Count(c, "update") = 0
                 /\ Count(c, "render") = 0

\* a valid POST for a key the repository does not hold, answered 404, and an
\* edit request for a key it holds with the item fetched
NotFoundWitness ==
    \E c \in Clients : \E d \in Clients :
        /\ Looked(c)
        /\ clients[c].request.pk = <<"z">>
        /\ clients[c].request.method = "POST"
        /\ clients[c].request.form.label = <<"a", "b", "c">>
        /\ clients[c].request.async_validators = <<>>
        /\ clients[c].response.status = 404
        /\ Looked(d)
        /\ clients[d].item.id = <<"x">>


\* the client's request is a POST whose form passes validation: the label
\* is submitted with at least 3 characters and every async validator
\* answers true
ValidPost(c) ==
    LET req == clients[c].request
    IN  /\ req.method = "POST"
        /\ req.form.label # NoValue
        /\ Len(req.form.label) >= 3
        /\ \A i \in 1..Len(req.async_validators) : req.async_validators[i]

\* the client's edit request has fetched its item
Fetched(c) == Looked(c) /\ clients[c].item # NoItem

\* what holds of every client's edit request once its item is fetched:
\* update is called iff the request is a valid POST, an invalid POST is
\* answered 400, a valid POST whose update returned is answered 200 with the
\* submitted values
UpdateIffValidPost ==
    \A c \in Clients :
        Fetched(c) =>
            /\ Count(c, "update") = (IF ValidPost(c) THEN 1 ELSE 0)
            /\ Count(c, "update_return") <= Count(c, "update")
            /\ (Done(c) /\ clients[c].request.method = "POST" /\ ~ValidPost(c)) =>
                   /\ clients[c].response.status = 400
                   /\ Count(c, "render") = 1
            /\ (Done(c) /\ Count(c, "update_return") = 1) =>
                   /\ clients[c].response.status = 200
                   /\ clients[c].response.context.item.label
                          = clients[c].request.form.label
                   /\ clients[c].response.context.item.id = clients[c].request.pk
            /\ (Done(c) /\ clients[c].request.method = "GET") =>
                   clients[c].response.status = 200

\* what a step of client c does to the stored items: the return of the
\* update of a valid POST stores the submitted values under the item's key
\* and leaves the other items alone; no other step changes the stored items
StoresOnlyValidPost(c) ==
    IF clients[c].pc = "awaiting_update" /\ clients'[c].response.status = 200
    THEN /\ ValidPost(c)
         /\ Len(_items') = Len(_items)
         /\ \A i \in 1..Len(_items) :
                IF _items[i].id = clients[c].request.pk
                THEN _items'[i] = [_items[i] EXCEPT
                                      !.label = clients[c].request.form.label]
                ELSE _items'[i] = _items[i]
    ELSE _items' = _items

\* C20: in ModelViewEdit repository.update(item, form data) is called iff
\* the request method is POST and validation succeeds; a POST with invalid
\* data is answered 400 and leaves the stored item unchanged, a POST with
\* valid data is answered 200 and the stored item carries the submitted
\* values, and a GET never changes the stored item
EditUpdates ==
    [][/\ UpdateIffValidPost'
       /\ \A c \in Clients :
              clients'[c] # clients[c] => StoresOnlyValidPost(c)]_vars

\* a valid POST answered 200 with the submitted label stored, next to an
\* invalid POST of a too short label answered 400
EditUpdatesWitness ==
    \E c \in Clients : \E d \in Clients :
        /\ Done(c)
        /\ ValidPost(c)
        /\ clients[c].response.status = 200
        /\ Stored(clients[c].request.pk).label = <<"a", "b", "c">>
        /\ Done(d)
        /\ clients[d].request.method = "POST"
        /\ clients[d].request.form.label = <<"a", "b">>
        /\ clients[d].response.status = 400


(***************************************************************************)
(* Vocabulary of the claims about the view tree.                           *)
(***************************************************************************)
\* what a read of n.route_name returns in the tree as it is
RouteNameOf(n) == route_name(views, n, {})

\* C21: the fully-qualified route name of a node is its own name when it has
\* no parent, and otherwise the parent's fully-qualified route name, the
\* separator and its own name, at every depth of the tree
RouteNameRecurrence ==
    \A n \in Constructed :
        ~RouteNameOf(n).raised =>
            RouteNameOf(n).value
                = IF views[n]._parent = NoParent
                  THEN <<views[n].name>>
                  ELSE RouteNameOf(views[n]._parent).value
                           \o <<ROUTE_NAME_SEPARATOR, views[n].name>>

\* the places of n's children list
Places(n) == 1..Len(views[n].children)

\* C22: a tree in which two siblings share a name is rejected at assembly
\* time: no node has two distinct children of the same name
SiblingNamesUnique ==
    \A n \in Constructed : \A i \in Places(n) : \A j \in Places(n) :
        views[n].children[i] # views[n].children[j] =>
            views[views[n].children[i]].name # views[views[n].children[j]].name

\* C26: a read of route_name, wherever it falls among the assembly
\* operations, returns the name derived from the node's parent chain as it
\* is at that read
RouteNameReadIsCurrent ==
    (read.node # NoParent /\ ~read.raised) =>
        /\ ~route_name_uncached(views, read.node, {}).raised
        /\ read.value = route_name_uncached(views, read.node, {}).value

\* the nodes reached from n by following parent references, n included
RECURSIVE Ancestors(_, _)
Ancestors(n, seen) ==
    IF n = NoParent \/ n \in seen THEN seen
    ELSE Ancestors(views[n]._parent, seen \cup {n})

\* following parent references from n comes back to n
OnCycle(n) ==
    /\ views[n]._parent # NoParent
    /\ n \in Ancestors(views[n]._parent, {})

\* C27: parent and children agree: c is in n.children iff c.parent is n,
\* each node occurs in at most one children list and at most once in it,
\* and following parent references reaches a root (no cycles)
ParentChildrenAgree ==
    /\ \A n \in Constructed : \A c \in Constructed :
           (\E i \in Places(n) : views[n].children[i] = c) <=> views[c]._parent = n
    /\ \A c \in Constructed :
           Cardinality({<<n, i>> \in Nodes \X (1..MaxChildren) :
                           i \in Places(n) /\ views[n].children[i] = c}) <= 1
    /\ \A n \in Constructed : ~OnCycle(n)


\* C23: handling any sequence of possibly concurrent list and edit requests
\* leaves the view tree (each node's name, parent and children) and the list
\* view's field set unchanged; only request-scoped state and the
\* repository's data are written
ViewTreeReadOnly ==
    [][\A n \in AppNodes :
           /\ views'[n].name = views[n].name
           /\ views'[n]._parent = views[n]._parent
           /\ views'[n].children = views[n].children
           /\ views'[n].fields = views[n].fields
           /\ views'[n].route_name = views[n].route_name]_vars

\* a list page and an edit page rendered, the edit after an update, with the
\* tree as it was assembled
ViewTreeReadOnlyWitness ==
    \E c \in Clients : \E d \in Clients :
        /\ ListRendered(c)
        /\ clients[c].list_args.sorting # <<>>
        /\ Done(d)
        /\ Count(d, "update_return") = 1
        /\ Count(d, "render") = 1
        /\ views["list"].fields = fields
        /\ views["my_model"].children = <<"list", "edit">>
        /\ views["list"].route_name
               = <<"asgi_admin", ROUTE_NAME_SEPARATOR, "my_model",
                   ROUTE_NAME_SEPARATOR, "list">>


(***************************************************************************)
(* Vocabulary of the claims about the repositories' list.                  *)
(***************************************************************************)
\* the items of the table of which at least one query field, as text,
\* contains the query case-insensitively; all of them without a query
Containing ==
    IF listing.query = None THEN TableItems
    ELSE SelectSeq(TableItems,
             LAMBDA item : \E i \in 1..Len(listing.query_fields) :
                 contains(lower(item[listing.query_fields[i]]),
                          lower(listing.query)))

\* C24: the first element returned by the SQLAlchemy RepositoryBase.list is
\* the number of all items matching the query filter, whatever the window
\* (offset >= 0, limit >= 1), and total >= len(items) and len(items) <= limit
SqlTotalIndependentOfWindow ==
    listing.called = "RepositoryBase" =>
        /\ listing.total
               = Len(where(TableItems, listing.query, listing.query_fields))
        /\ listing.total >= listing.page_len
        /\ listing.page_len <= listing.limit

\* C25: with a query and a non-empty set of query_fields the returned total
\* and items are exactly the items of which at least one query field, as
\* text, contains the query case-insensitively, and the window is applied
\* after filtering and sorting (for RepositoryBase: on the pages that hold
\* a row, where its total is the count of the rows)
ListFiltering ==
    listing.query # None =>
        /\ listing.called = "MyModelRepository" =>
               /\ listing.total = Len(Containing)
               /\ listing.items
                      = slice(sort_all(Containing, listing.sorting),
                              listing.offset, listing.offset + listing.limit)
        /\ listing.called = "RepositoryBase" =>
               /\ listing.page_len
                      = window_len(Len(Containing), listing.offset, listing.limit)
               /\ listing.page_len > 0 => listing.total = Len(Containing)


\* some route of the nested list, at any depth, has the endpoint
RECURSIVE HasEndpoint(_, _)
HasEndpoint(routes, endpoint) ==
    \E i \in 1..Len(routes) :
        \/ routes[i].endpoint = endpoint
        \/ HasEndpoint(routes[i].routes, endpoint)

\* C30: _get_current_route returns the route whose endpoint equals the
\* request's endpoint whenever such a route exists anywhere in the nested
\* route list (at any depth and in any sibling position, also after an
\* earlier sibling that has sub-routes), and raises CurrentRouteNotFound
\* only when no route has that endpoint
CurrentRouteFound ==
    routing.looked =>
        IF HasEndpoint(routing.routes, routing.endpoint)
        THEN ~routing.raised /\ routing.route.endpoint = routing.endpoint
        ELSE routing.raised


(***************************************************************************)
(* Vocabulary of the claim about paging through the list.                  *)
(***************************************************************************)
\* the pages of the traversal so far, the current one last
PagesSoFar == Append(visited.pages, CurrentPage)

\* the items of a page's half-open range
RangeSet(page) == page.range[1]..(page.range[2] - 1)

\* the traversal is at a page without a 'next' link
TraversalEnded ==
    Rendered /\ response.context.pagination.next_route = NoRoute

\* every request of the traversal is answered with a page; the pages start
\* at offset 0, each further on than the one before, their ranges pairwise
\* disjoint; every page before the current one holds limit items of the
\* total, so that the 'next' links followed are fewer than the total; a page
\* come to by 'next' has a 'previous' link; at the last page the ranges
\* cover exactly [0, total)
TraversalSafe ==
    response # NoResponse =>
        /\ Rendered
        /\ PagesSoFar[1].offset = 0
        /\ Len(visited.pages) * CurrentPage.limit < total \/ visited.pages = <<>>
        /\ \A i \in 1..(Len(PagesSoFar) - 1) :
               PagesSoFar[i].offset < PagesSoFar[i + 1].offset
        /\ \A i \in 1..Len(PagesSoFar) : \A j \in 1..Len(PagesSoFar) :
               i # j => RangeSet(PagesSoFar[i]) \cap RangeSet(PagesSoFar[j]) = {}
        /\ visited.pages # <<>> =>
               response.context.pagination.previous_route # NoRoute
        /\ TraversalEnded =>
               UNION {RangeSet(PagesSoFar[i]) : i \in 1..Len(PagesSoFar)}
                   = 0..(total - 1)

\* going back by 'previous' gives the page the client came from
BackReturns ==
    Len(visited'.pages) < Len(visited.pages) =>
        /\ response'.status = 200
        /\ response'.context.pagination.offset
               = visited.pages[Len(visited.pages)].offset
        /\ response'.context.pagination.limit
               = visited.pages[Len(visited.pages)].limit
        /\ response'.context.pagination.range
               = visited.pages[Len(visited.pages)].range

\* C28: for every total >= 0 and limit >= 1, starting at offset 0 and
\* repeatedly following next_route reaches a page whose next_route is absent
\* after finitely many steps, each step strictly increases the offset, the
\* ranges of the visited pages are pairwise disjoint and together cover
\* exactly [0, total); following previous_route from a page reached by
\* next_route returns to the page it came from
PaginationTraversal == []TraversalSafe /\ [][BackReturns]_vars

\* the last of at least three pages, the last one cut short by the total,
\* after the client went back once on the way
PaginationTraversalWitness ==
    /\ TraversalEnded
    /\ Len(visited.pages) >= 2
    /\ visited.backed # {}
    /\ response.context.pagination.range[2] - response.context.pagination.range[1]
           < response.context.pagination.limit
    /\ response.context.pagination.range[2] > response.context.pagination.range[1]


(***************************************************************************)
(* Vocabulary of the claim about the edit view's async validators.         *)
(***************************************************************************)
\* the submitted form of the client's request passes the synchronous
\* validation
SyncValid(c) ==
    /\ clients[c].request.form.label # NoValue
    /\ Len(clients[c].request.form.label) >= 3

\* the async validators configured for the client's request
Configured(c) == 1..Len(clients[c].request.async_validators)

\* C29: on an edit POST the asynchronous validators are run only when the
\* synchronous form validation succeeded; when they run, every configured
\* validator is awaited once in configuration order, also after one of them
\* failed, and the overall result is true (the update is called) iff all of
\* them returned true; with no validators configured the result is true
AsyncValidatorsRun ==
    \A c \in Clients :
        (Fetched(c) /\ clients[c].request.method = "POST") =>
            /\ ~SyncValid(c) =>
                   /\ clients[c].awaited = <<>>
                   /\ Count(c, "update") = 0
            /\ SyncValid(c) =>
                   /\ clients[c].awaited = [i \in Configured(c) |-> i]
                   /\ Count(c, "update") = 1
                          <=> \A i \in Configured(c) :
                                  clients[c].request.async_validators[i]
                   /\ Configured(c) = {} => Count(c, "update") = 1

\* a POST whose form is valid and whose first validator answers false has
\* its second validator awaited and is answered 400, while another client's
\* POST with an invalid form has no validator awaited
AsyncValidatorsRunWitness ==
    \E c \in Clients : \E d \in Clients \ {c} :
        /\ Fetched(c) /\ clients[c].request.method = "POST" /\ SyncValid(c)
        /\ clients[c].request.async_validators = <<FALSE, TRUE>>
        /\ clients[c].awaited = <<1, 2>>
        /\ clients[c].response.status = 400
        /\ Fetched(d) /\ clients[d].request.method = "POST" /\ ~SyncValid(d)
        /\ clients[d].request.async_validators = <<TRUE, TRUE>>
        /\ clients[d].awaited = <<>>
        /\ clients[d].response.status = 400

====
